---- MODULE Spec2Model ----
(***************************************************************************)
(* Model of the qca-gcrypt provider plugin                                 *)
(* (src/plugins/qca-gcrypt/qca-gcrypt.cpp): the provider (init, features,  *)
(* createContext), the hash, cipher and pbkdf2 contexts, and the libgcrypt *)
(* objects they drive (library initialisation state, digest and cipher     *)
(* handles).  The libgcrypt primitives are not re-implemented: a digest is *)
(* a symbolic value of the bytes written to a handle, and only the call    *)
(* sequence, the handle lifetime and the status codes are modelled.        *)
(***************************************************************************)
EXTENDS Integers, Sequences, FiniteSets, TLC

(***************************************************************************)
(* Bounds of the model.                                                    *)
(***************************************************************************)
\* contexts ever constructed in one run (createContext and clone)
MaxCtx == 2
\* libgcrypt handles ever opened in one run
MaxHandles == 2
\* bytes written to one digest handle between two resets
MaxAbsorb == 2
\* calls of gcryptProvider::init in one run
MaxInitCalls == 4
\* cipher contexts asked for their key length in one run
MaxKeyLengthCtx == 1
\* contexts created in one run of the status workload
MaxStatusCtx == 1

(***************************************************************************)
(* Values.                                                                 *)
(***************************************************************************)
\* the value createContext returns for an unknown type ("return 0")
Null == [ cls |-> "null" ]
\* a gcry_md_hd_t / gcry_cipher_hd_t member that was never assigned
Uninit == -1
\* the handle value libgcrypt stores when an open fails
NullHandle == 0
\* gcry_error_t classes: GPG_ERR_NO_ERROR, GPG_ERR_WEAK_KEY, any other code
Status == {"GPG_ERR_NO_ERROR", "GPG_ERR_WEAK_KEY", "GPG_ERR_OTHER"}
\* byte values and the byte arrays callers pass to update
Bytes == {0, 1}
Inputs == {<<>>, <<0>>, <<1>>, <<0, 1>>}
\* names a caller may ask for that are not in the catalogue
UnknownNames == {"not-a-real-algorithm", "sha224"}

(***************************************************************************)
(* gcryptProvider::features: the list of names, in the order of the code.  *)
(***************************************************************************)
features ==
  << "sha1", "md4", "md5", "ripemd160", "sha256", "sha384", "sha512",
     "aes128-ecb", "aes128-cfb", "aes128-cbc",
     "aes192-ecb", "aes192-cfb", "aes192-cbc",
     "aes256-ecb", "aes256-cfb", "aes256-cbc",
     "blowfish-ecb", "tripledes-ecb", "des-ecb", "des-cbc", "des-cfb",
     "pbkdf2(sha1)" >>

FeatureSet == { features[i] : i \in 1..Len(features) }

\* every name a caller of createContext passes in the model
AllNames == FeatureSet \cup UnknownNames

(***************************************************************************)
(* The three context classes as their constructors leave the members.      *)
(* A hash context's handle is assigned by gcry_md_open in the constructor  *)
(* (see NewContext); a cipher context's handle and direction are not       *)
(* assigned by the constructor at all.                                     *)
(***************************************************************************)
gcryHashContext(hashAlgorithm, type) ==
  [ cls |-> "Hash", type |-> type, alg |-> hashAlgorithm, mode |-> "none",
    pad |-> FALSE, dir |-> "none", handle |-> Uninit, live |-> TRUE ]

gcryCipherContextMut(algorithm, mode, pad, type) ==
  [ cls |-> "Cipher", type |-> type, alg |-> algorithm,
    mode |-> "GCRY_CIPHER_MODE_ECB",
    pad |-> pad, dir |-> "uninit", handle |-> Uninit, live |-> TRUE ]

gcryCipherContext(algorithm, mode, pad, type) ==
  [ cls |-> "Cipher", type |-> type, alg |-> algorithm, mode |-> mode,
    pad |-> pad, dir |-> "uninit", handle |-> Uninit, live |-> TRUE ]

pbkdf2Context(algorithm, type) ==
  [ cls |-> "KDF", type |-> type, alg |-> algorithm, mode |-> "none",
    pad |-> FALSE, dir |-> "none", handle |-> Uninit, live |-> TRUE ]

(***************************************************************************)
(* gcryptProvider::createContext: the chain of string comparisons, each    *)
(* branch constructing one context; the last branch returns 0.             *)
(***************************************************************************)
createContextMut(type) ==
  IF type \in FeatureSet \cup {"sha224"}
    THEN gcryHashContext("GCRY_MD_SHA1", type)
    ELSE Null

createContext(type) ==
  IF type = "sha1" THEN gcryHashContext("GCRY_MD_SHA1", type)
  ELSE IF type = "md4" THEN gcryHashContext("GCRY_MD_MD4", type)
  ELSE IF type = "md5" THEN gcryHashContext("GCRY_MD_MD5", type)
  ELSE IF type = "ripemd160" THEN gcryHashContext("GCRY_MD_RMD160", type)
  ELSE IF type = "sha256" THEN gcryHashContext("GCRY_MD_SHA256", type)
  ELSE IF type = "sha384" THEN gcryHashContext("GCRY_MD_SHA384", type)
  ELSE IF type = "sha512" THEN gcryHashContext("GCRY_MD_SHA512", type)
  ELSE IF type = "aes128-ecb" THEN
    gcryCipherContext("GCRY_CIPHER_AES128", "GCRY_CIPHER_MODE_ECB", FALSE, type)
  ELSE IF type = "aes128-cfb" THEN
    gcryCipherContext("GCRY_CIPHER_AES128", "GCRY_CIPHER_MODE_CFB", FALSE, type)
  ELSE IF type = "aes128-cbc" THEN
    gcryCipherContext("GCRY_CIPHER_AES128", "GCRY_CIPHER_MODE_CBC", FALSE, type)
  ELSE IF type = "aes192-ecb" THEN
    gcryCipherContext("GCRY_CIPHER_AES192", "GCRY_CIPHER_MODE_ECB", FALSE, type)
  ELSE IF type = "aes192-cfb" THEN
    gcryCipherContext("GCRY_CIPHER_AES192", "GCRY_CIPHER_MODE_CFB", FALSE, type)
  ELSE IF type = "aes192-cbc" THEN
    gcryCipherContext("GCRY_CIPHER_AES192", "GCRY_CIPHER_MODE_CBC", FALSE, type)
  ELSE IF type = "aes256-ecb" THEN
    gcryCipherContext("GCRY_CIPHER_AES256", "GCRY_CIPHER_MODE_ECB", FALSE, type)
  ELSE IF type = "aes256-cfb" THEN
    gcryCipherContext("GCRY_CIPHER_AES256", "GCRY_CIPHER_MODE_CFB", FALSE, type)
  ELSE IF type = "aes256-cbc" THEN
    gcryCipherContext("GCRY_CIPHER_AES256", "GCRY_CIPHER_MODE_CBC", FALSE, type)
  ELSE IF type = "blowfish-ecb" THEN
    gcryCipherContext("GCRY_CIPHER_BLOWFISH", "GCRY_CIPHER_MODE_ECB", FALSE, type)
  ELSE IF type = "tripledes-ecb" THEN
    gcryCipherContext("GCRY_CIPHER_3DES", "GCRY_CIPHER_MODE_ECB", FALSE, type)
  ELSE IF type = "des-ecb" THEN
    gcryCipherContext("GCRY_CIPHER_DES", "GCRY_CIPHER_MODE_ECB", FALSE, type)
  ELSE IF type = "des-cbc" THEN
    gcryCipherContext("GCRY_CIPHER_DES", "GCRY_CIPHER_MODE_CBC", FALSE, type)
  ELSE IF type = "des-cfb" THEN
    gcryCipherContext("GCRY_CIPHER_DES", "GCRY_CIPHER_MODE_CFB", FALSE, type)
  ELSE IF type = "pbkdf2(sha1)" THEN pbkdf2Context("GCRY_MD_SHA1", type)
  ELSE Null


(***************************************************************************)
(* State.                                                                  *)
(***************************************************************************)
VARIABLES
  gcry,      \* libgcrypt's process-wide initialisation state
  pc,        \* where each thread stands inside gcryptProvider::init
  prov,      \* what the calls of gcryptProvider::init did so far
  ctxs,      \* the contexts constructed so far (deleted ones keep their slot)
  hds,       \* the libgcrypt handles opened so far (closed ones keep their slot)
  hist,      \* per context, what its caller did with it (history, not program state)
  ret,       \* the last operation: its backend calls and what it returned
  crashed    \* the process died inside libgcrypt

vars == << gcry, pc, prov, ctxs, hds, hist, ret, crashed >>

initVars == << gcry, pc, prov >>
ctxVars == << ctxs, hds, hist, ret, crashed >>

\* the threads that may call gcryptProvider::init
Threads == { "t1", "t2" }

(***************************************************************************)
(* libgcrypt handles.  A digest handle holds the bytes written since the   *)
(* last reset; gcry_md_read finalizes it, and bytes written to a finalized *)
(* handle leave a state that is the digest of no message (tainted).        *)
(***************************************************************************)
MdHandle(alg) ==
  [ alg |-> alg, kind |-> "md", buf |-> <<>>, fin |-> FALSE,
    tainted |-> FALSE, closes |-> 0 ]

\* gcry_md_get_algo_dlen
DigestLen(alg) ==
  CASE alg = "GCRY_MD_SHA1"   -> 20
    [] alg = "GCRY_MD_MD4"    -> 16
    [] alg = "GCRY_MD_MD5"    -> 16
    [] alg = "GCRY_MD_RMD160" -> 20
    [] alg = "GCRY_MD_SHA256" -> 32
    [] alg = "GCRY_MD_SHA384" -> 48
    [] alg = "GCRY_MD_SHA512" -> 64
    [] OTHER -> 0

\* what a handle member is to the library when a context passes it
HandleState(h) ==
  IF h = Uninit THEN "uninit"
  ELSE IF h = NullHandle THEN "null"
  ELSE IF hds[h].closes = 0 THEN "open"
  ELSE "closed"

\* gcry_md_close: the handle's memory is released
MdClose(hd) ==
  [ hd EXCEPT !.buf = <<>>, !.fin = FALSE, !.tainted = FALSE, !.closes = @ + 1 ]

\* gcry_md_reset
MdReset(hd) == [ hd EXCEPT !.buf = <<>>, !.fin = FALSE, !.tainted = FALSE ]

\* gcry_md_write
MdWrite(hd, a) ==
  IF hd.fin /\ a # <<>> THEN [ hd EXCEPT !.buf = @ \o a, !.tainted = TRUE ]
  ELSE [ hd EXCEPT !.buf = @ \o a ]

\* gcry_md_read: finalizes the handle; the bytes written are kept
MdRead(hd) == [ hd EXCEPT !.fin = TRUE ]

\* the bytes of a digest are not computed: a digest is the value of the
\* algorithm, the bytes written and whether the state was tainted
DigestValue(alg, hd) == [ alg |-> alg, of |-> hd.buf, exact |-> ~hd.tainted ]

\* what gcry_md_read can leave in memory when the handle was closed
GarbageDigests == { [ alg |-> "freed", of |-> <<b>>, exact |-> FALSE ] : b \in Bytes }

NoRet == [ arg |-> <<>>, calls |-> <<>>, ctx |-> 0, diag |-> FALSE, len |-> 0,
           ok |-> TRUE, op |-> "none", prev |-> Null, pure |-> TRUE,
           val |-> Null ]

NoHist == [ pure |-> TRUE, absorbed |-> <<>>, seen |-> Null ]

\* the process dies inside libgcrypt: its objects are gone with it and the
\* operation never returns
Crash(op) ==
  /\ crashed' = TRUE
  /\ ret' = [ NoRet EXCEPT !.op = "crash", !.arg = <<op>> ]
  /\ ctxs' = <<>>
  /\ hds' = <<>>
  /\ hist' = <<>>

\* libgcrypt before anyone touched it, and after another component of the
\* process initialised it; "finished" counts GCRYCTL_INITIALIZATION_FINISHED
GcryUninitialized == [ anyInit |-> FALSE, finished |-> 0 ]
GcryReady == [ anyInit |-> TRUE, finished |-> 1 ]

\* a thread outside init
Idle == [ at |-> "idle", warned |-> FALSE ]

Init ==
  /\ gcry \in { GcryUninitialized, GcryReady }
  /\ pc = [ t \in Threads |-> Idle ]
  /\ prov = [ calls |-> 0, versions |-> 0, finishes |-> 0, overlapped |-> FALSE ]
  /\ ctxs = <<>>
  /\ hds = <<>>
  /\ hist = <<>>
  /\ ret = NoRet
  /\ crashed = FALSE

\* contexts are created after the provider was initialised
InitReady == Init /\ gcry.anyInit

(***************************************************************************)
(* Provider operations.                                                    *)
(***************************************************************************)
LiveCtx == { c \in 1..Len(ctxs) : ctxs[c].live }

Call(fn, h, st) == [ h |-> h, fn |-> fn, st |-> st ]

Ok == "GPG_ERR_NO_ERROR"

\* the statuses of a call that cannot report a weak key
Failing == { "GPG_ERR_NO_ERROR", "GPG_ERR_OTHER" }

\* the slot of a deleted context: the object is gone
Deleted ==
  [ cls |-> "deleted", type |-> "", alg |-> "", mode |-> "none",
    pad |-> FALSE, dir |-> "none", handle |-> Uninit, live |-> FALSE ]

\* gcryptProvider::createContext(type), the constructor it runs included:
\* gcryHashContext opens its digest handle (a failure is printed and the
\* context is returned all the same), gcryCipherContext opens nothing,
\* pbkdf2Context asks libgcrypt for secure memory.
NewContextMut(type) ==
  LET d == createContext(type)
      c == Len(ctxs) + 1
      r == [ NoRet EXCEPT !.op = "createContext", !.arg = <<type>> ]
  IN
  /\ ~crashed
  /\ IF d.cls = "null" THEN
       /\ ret' = r
       /\ UNCHANGED << ctxs, hds, hist, crashed >>
     ELSE
       /\ Len(ctxs) < MaxCtx
       /\ hist' = Append(hist, NoHist)
       /\ crashed' = FALSE
       /\ IF d.cls = "Hash" THEN
            \E err \in { Ok, "GPG_ERR_OTHER" } :
              IF err = Ok THEN
                /\ hds' = Append(hds, MdHandle(d.alg))
                /\ ctxs' = Append(ctxs, [ d EXCEPT !.handle = Len(hds) + 1 ])
                /\ ret' = [ r EXCEPT !.ctx = c,
                            !.calls = << Call("gcry_md_open", Len(hds) + 1, err) >> ]
              ELSE
                /\ hds' = hds
                /\ ctxs' = Append(ctxs, [ Deleted EXCEPT !.type = type ])
                /\ ret' = [ r EXCEPT !.ctx = 0, !.diag = TRUE,
                            !.calls = << Call("gcry_md_open", NullHandle, err) >> ]
          ELSE
            /\ hds' = hds
            /\ ctxs' = Append(ctxs, d)
            /\ ret' = [ r EXCEPT !.ctx = c,
                        !.calls = IF d.cls = "KDF"
                                    THEN << Call("gcry_control", Uninit, Ok) >>
                                    ELSE <<>> ]
  /\ UNCHANGED initVars

NewContext(type) ==
  LET d == createContext(type)
      c == Len(ctxs) + 1
      r == [ NoRet EXCEPT !.op = "createContext", !.arg = <<type>> ]
  IN
  /\ ~crashed
  /\ IF d.cls = "null" THEN
       /\ ret' = r
       /\ UNCHANGED << ctxs, hds, hist, crashed >>
     ELSE
       /\ Len(ctxs) < MaxCtx
       /\ hist' = Append(hist, NoHist)
       /\ crashed' = FALSE
       /\ IF d.cls = "Hash" THEN
            \E err \in { Ok, "GPG_ERR_OTHER" } :
              IF err = Ok THEN
                /\ hds' = Append(hds, MdHandle(d.alg))
                /\ ctxs' = Append(ctxs, [ d EXCEPT !.handle = Len(hds) + 1 ])
                /\ ret' = [ r EXCEPT !.ctx = c,
                            !.calls = << Call("gcry_md_open", Len(hds) + 1, err) >> ]
              ELSE
                /\ hds' = hds
                /\ ctxs' = Append(ctxs, [ d EXCEPT !.handle = NullHandle ])
                /\ ret' = [ r EXCEPT !.ctx = c, !.diag = TRUE,
                            !.calls = << Call("gcry_md_open", NullHandle, err) >> ]
          ELSE
            /\ hds' = hds
            /\ ctxs' = Append(ctxs, d)
            /\ ret' = [ r EXCEPT !.ctx = c,
                        !.calls = IF d.cls = "KDF"
                                    THEN << Call("gcry_control", Uninit, Ok) >>
                                    ELSE <<>> ]
  /\ UNCHANGED initVars

\* Context::clone of the three classes: "new T(*this)", the implicit copy
\* constructor, which copies every member, the handle member included.
CloneOfMut(ctx) == [ ctx EXCEPT !.alg = "GCRY_MD_MD5" ]

CloneOf(ctx) == ctx

Clone(c) ==
  /\ ~crashed
  /\ c \in LiveCtx
  /\ Len(ctxs) < MaxCtx
  /\ ctxs' = Append(ctxs, CloneOf(ctxs[c]))
  /\ hist' = Append(hist, hist[c])
  /\ ret' = [ NoRet EXCEPT !.op = "clone", !.arg = <<c>>, !.ctx = Len(ctxs) + 1 ]
  /\ UNCHANGED << hds, crashed >>
  /\ UNCHANGED initVars

\* delete of a context.  ~gcryHashContext calls gcry_md_close(context);
\* gcryCipherContext and pbkdf2Context declare no destructor.  Closing a
\* handle that is already closed is undefined: the process dies or goes on.
DestructorCloses(ctx) == ctx.cls = "Hash"

Destroy(c) ==
  /\ ~crashed
  /\ c \in LiveCtx
  /\ LET h == ctxs[c].handle
         r == [ NoRet EXCEPT !.op = "delete", !.ctx = c ]
         gone == /\ ctxs' = [ ctxs EXCEPT ![c] = Deleted ]
                 /\ hist' = [ hist EXCEPT ![c] = NoHist ]
                 /\ crashed' = FALSE
     IN
     IF ~DestructorCloses(ctxs[c]) THEN
       gone /\ ret' = r /\ hds' = hds
     ELSE
       LET rc == [ r EXCEPT !.calls = << Call("gcry_md_close", h, Ok) >> ] IN
       CASE HandleState(h) = "open" ->
              gone /\ ret' = rc /\ hds' = [ hds EXCEPT ![h] = MdClose(@) ]
         [] HandleState(h) = "closed" ->
              \/ gone /\ ret' = rc /\ hds' = [ hds EXCEPT ![h] = MdClose(@) ]
              \/ Crash("delete")
         [] OTHER -> gone /\ ret' = rc /\ hds' = hds
  /\ UNCHANGED initVars

(***************************************************************************)
(* gcryHashContext.  Each operation passes the member "context" to         *)
(* libgcrypt as it is.  On the null handle a failed gcry_md_open leaves,   *)
(* libgcrypt dereferences a null pointer.  On a handle that was closed (by *)
(* the destructor of a context holding the same handle) the behaviour is   *)
(* undefined: the process dies, or the call returns having read or written *)
(* freed memory.                                                           *)
(***************************************************************************)
HashCtx == { c \in LiveCtx : ctxs[c].cls = "Hash" }

\* gcryHashContext::clear
HashClear(c) ==
  /\ ~crashed
  /\ c \in HashCtx
  /\ LET h == ctxs[c].handle
         r == [ NoRet EXCEPT !.op = "clear", !.ctx = c,
                !.calls = << Call("gcry_md_reset", h, Ok) >> ]
         ran == /\ ret' = r
                /\ hist' = [ hist EXCEPT ![c] = NoHist ]
                /\ UNCHANGED << ctxs, crashed >>
     IN
     CASE HandleState(h) = "open" -> ran /\ hds' = [ hds EXCEPT ![h] = MdReset(@) ]
       [] HandleState(h) = "closed" -> (ran /\ hds' = hds) \/ Crash("clear")
       [] OTHER -> Crash("clear")
  /\ UNCHANGED initVars

\* gcryHashContext::update(a)
HashUpdate(c, a) ==
  /\ ~crashed
  /\ c \in HashCtx
  /\ Len(hist[c].absorbed) + Len(a) <= MaxAbsorb
  /\ LET h == ctxs[c].handle
         r == [ NoRet EXCEPT !.op = "update", !.ctx = c,
                !.calls = << Call("gcry_md_write", h, Ok) >> ]
         ran == /\ ret' = r
                /\ hist' = [ hist EXCEPT ![c].absorbed = @ \o a, ![c].seen = Null ]
                /\ UNCHANGED << ctxs, crashed >>
     IN
     CASE HandleState(h) = "open" ->
            /\ Len(hds[h].buf) + Len(a) <= MaxAbsorb
            /\ ran
            /\ hds' = [ hds EXCEPT ![h] = MdWrite(@, a) ]
       [] HandleState(h) = "closed" -> (ran /\ hds' = hds) \/ Crash("update")
       [] OTHER -> Crash("update")
  /\ UNCHANGED initVars

\* gcryHashContext::final: an array of gcry_md_get_algo_dlen bytes, filled
\* from what gcry_md_read returns
HashFinal(c) ==
  /\ ~crashed
  /\ c \in HashCtx
  /\ LET h == ctxs[c].handle
         alg == ctxs[c].alg
         r == [ NoRet EXCEPT !.op = "final", !.ctx = c,
                !.calls = << Call("gcry_md_read", h, Ok) >>,
                !.len = DigestLen(alg), !.pure = hist[c].pure,
                !.prev = hist[c].seen ]
         ran(v) == /\ ret' = [ r EXCEPT !.val = v ]
                   /\ hist' = [ hist EXCEPT ![c].pure = FALSE, ![c].seen = v ]
                   /\ UNCHANGED << ctxs, crashed >>
     IN
     CASE HandleState(h) = "open" ->
            /\ ran(DigestValue(alg, hds[h]))
            /\ hds' = [ hds EXCEPT ![h] = MdRead(@) ]
       [] HandleState(h) = "closed" ->
            \/ \E g \in GarbageDigests : ran(g) /\ hds' = hds
            \/ Crash("final")
       [] OTHER -> Crash("final")
  /\ UNCHANGED initVars

(***************************************************************************)
(* check_error(label, err): prints a diagnostic unless err is "no error"   *)
(* or a weak-key code; it returns nothing and changes nothing.             *)
(***************************************************************************)
check_errorMut(err) == err # "GPG_ERR_NO_ERROR"

check_error(err) == err # "GPG_ERR_NO_ERROR" /\ err # "GPG_ERR_WEAK_KEY"

(***************************************************************************)
(* gcryCipherContext.  The constructor assigns neither the handle nor the  *)
(* direction; setup assigns both.  The class declares no destructor, so    *)
(* gcry_cipher_close is never called.  A cipher handle holds the key and   *)
(* iv libgcrypt accepted; what a transform writes is not computed but kept *)
(* as the value of the transform, the handle's keying and the input.       *)
(***************************************************************************)
Directions == { "Encode", "Decode" }

CipherCtx == { c \in LiveCtx : ctxs[c].cls = "Cipher" }

\* gcry_cipher_open
CipherHandleMut(alg, mode) ==
  [ alg |-> alg, mode |-> "GCRY_CIPHER_MODE_ECB", kind |-> "cipher",
    closes |-> 0, key |-> "none", iv |-> "none", used |-> FALSE ]

CipherHandle(alg, mode) ==
  [ alg |-> alg, mode |-> mode, kind |-> "cipher", closes |-> 0,
    key |-> "none", iv |-> "none", used |-> FALSE ]

\* gcry_cipher_setkey: a key libgcrypt rejects is not installed
CipherSetKey(hd, key, err) ==
  IF err = "GPG_ERR_OTHER" THEN hd ELSE [ hd EXCEPT !.key = key ]

\* gcry_cipher_setiv
CipherSetIv(hd, iv, err) ==
  IF err = "GPG_ERR_OTHER" THEN hd ELSE [ hd EXCEPT !.iv = iv ]

\* gcry_cipher_algo_info(alg, GCRYCTL_GET_BLKLEN)
BlkLen(alg) ==
  IF alg \in { "GCRY_CIPHER_AES128", "GCRY_CIPHER_AES192", "GCRY_CIPHER_AES256" }
    THEN 16 ELSE 8

\* gcryCipherContext::blockSize: libgcrypt stores a size_t through a pointer
\* to the 4-byte local "blockSize".  Where size_t is 8 bytes the store runs
\* past the variable: the value read back is the block length (low half
\* first) or 0 (high half first).
blockSize(ctx) == { BlkLen(ctx.alg), 0 }

\* the transform update and final select: "QCA::Encode == m_direction";
\* a direction that was never assigned selects either
TransformsOf(ctx) ==
  IF ctx.dir = "Encode" THEN { "gcry_cipher_encrypt" }
  ELSE IF ctx.dir = "Decode" THEN { "gcry_cipher_decrypt" }
  ELSE { "gcry_cipher_encrypt", "gcry_cipher_decrypt" }

\* The content of a byte array.  The bytes a transform writes are not
\* computed: an array is the plain bytes "in" a caller made up (fn "plain"),
\* or what a transform fn wrote for the bytes "in" on a handle of that
\* algorithm, mode, key and iv, which had or had not transformed data
\* before ("used"), or as many bytes as "in" of no known content (fn "none").
\* An array of no bytes has no content: it is the plain array of no bytes.
Data(fn, alg, mode, key, iv, used, in) ==
  IF in = << >>
    THEN [ alg |-> "", mode |-> "", fn |-> "plain", key |-> "", iv |-> "",
           used |-> FALSE, in |-> << >> ]
    ELSE [ alg |-> alg, mode |-> mode, fn |-> fn, key |-> key, iv |-> iv,
           used |-> used, in |-> in ]

Plain(in) == Data("plain", "", "", "", "", FALSE, in)

\* the bytes gcry_cipher_encrypt / gcry_cipher_decrypt write for input "in"
CipherText(fn, hd, in) == Data(fn, hd.alg, hd.mode, hd.key, hd.iv, hd.used, in)

\* a result array the backend did not fill
Unfilled == Data("none", "", "", "", "", FALSE, << >>)

UnfilledOf(in) == Data("none", "", "", "", "", FALSE, in)

\* ECB transforms each block by itself; CBC and CFB chain every block to
\* the one before, starting from the iv
Chained(mode) == mode # "GCRY_CIPHER_MODE_ECB"

\* gcry_cipher_encrypt / gcry_cipher_decrypt on an open handle that
\* reports no error: decrypt undoes encrypt, and encrypt decrypt, when the
\* handle has the algorithm, mode, key and iv of the handle that wrote the
\* input and stands at the same place of the chain; any other input gives
\* bytes that are the transform of that input
Transform(fn, hd, d) ==
  IF d.fn = "plain" THEN CipherText(fn, hd, d.in)
  ELSE IF /\ { fn, d.fn } = { "gcry_cipher_encrypt", "gcry_cipher_decrypt" }
          /\ d.alg = hd.alg /\ d.mode = hd.mode
          /\ d.key = hd.key /\ d.iv = hd.iv
          /\ (Chained(hd.mode) => (~d.used /\ ~hd.used))
       THEN Plain(d.in)
  ELSE Data("garbled", hd.alg, hd.mode, hd.key, hd.iv, hd.used, d.in)

\* the handle after a transform: a chained mode has moved on
Transformed(hd, d) ==
  IF Chained(hd.mode) /\ d.in # << >> THEN [ hd EXCEPT !.used = TRUE ] ELSE hd

\* the statuses a transform can return on an open handle: libgcrypt
\* refuses to transform on a handle that has no key (GPG_ERR_MISSING_KEY);
\* ECB and CBC take whole blocks only
TransformStatuses(hd, d) ==
  IF hd.key = "none" THEN { "GPG_ERR_OTHER" }
  ELSE IF hd.mode # "GCRY_CIPHER_MODE_CFB" /\ Len(d.in) % BlkLen(hd.alg) # 0
    THEN { "GPG_ERR_OTHER" }
  ELSE { "GPG_ERR_NO_ERROR" }

\* gcryCipherContext::setup(dir, key, iv); e1, e2, e3 are the statuses
\* gcry_cipher_open, gcry_cipher_setkey and gcry_cipher_setiv return
CipherSetup(c, dir, key, iv, e1, e2, e3) ==
  /\ ~crashed
  /\ c \in CipherCtx
  /\   LET h == IF e1 = Ok THEN Len(hds) + 1 ELSE NullHandle
           \* on the null handle a failed open leaves, setkey and setiv fail
           k2 == IF e1 = Ok THEN e2 ELSE "GPG_ERR_OTHER"
           k3 == IF e1 = Ok THEN e3 ELSE "GPG_ERR_OTHER"
           \* hist[c].seen: what the caller last configured the context with
           cfg == [ dir |-> dir, key |-> key, iv |-> iv ]
           r == [ NoRet EXCEPT !.op = "setup", !.ctx = c,
                  !.calls = << Call("gcry_cipher_open", h, e1),
                               Call("gcry_cipher_setkey", h, k2),
                               Call("gcry_cipher_setiv", h, k3) >>,
                  !.diag = check_error(e1) \/ check_error(k2) \/ check_error(k3) ]
       IN
       IF e1 = Ok THEN
         /\ Len(hds) < MaxHandles
         /\ hds' = Append(hds, CipherSetIv(CipherSetKey(
                                  CipherHandle(ctxs[c].alg, ctxs[c].mode), key, k2), iv, k3))
         /\ ctxs' = [ ctxs EXCEPT ![c].dir = dir, ![c].handle = h ]
         /\ ret' = r
         /\ hist' = [ hist EXCEPT ![c].seen = cfg ]
         /\ UNCHANGED crashed
       ELSE
         \/ /\ ctxs' = [ ctxs EXCEPT ![c].dir = dir, ![c].handle = h ]
            /\ ret' = r
            /\ hist' = [ hist EXCEPT ![c].seen = cfg ]
            /\ UNCHANGED << hds, crashed >>
         \/ Crash("setup")
  /\ UNCHANGED initVars

\* what update hands back: "result.resize(in.size()); *out = result;
\* return true"
UpdateReturnMut(err, n) == [ len |-> n, ok |-> ~check_error(err) ]

UpdateReturn(err, n) == [ len |-> n, ok |-> TRUE ]

\* gcryCipherContext::update(in, out); err is the status the transform
\* returns on an open handle.  ret.arg is the bytes of "in" and ret.prev
\* the array itself.
CipherUpdate(c, in, err0) ==
  /\ ~crashed
  /\ c \in CipherCtx
  /\ LET h == ctxs[c].handle
         err == IF HandleState(h) = "open" THEN err0 ELSE "GPG_ERR_OTHER"
     IN
     \E fn \in TransformsOf(ctxs[c]) :
       LET back == UpdateReturn(err, Len(in.in))
           r == [ NoRet EXCEPT !.op = "cipherUpdate", !.ctx = c, !.arg = in.in,
                  !.prev = in,
                  !.calls = << Call(fn, h, err) >>, !.diag = check_error(err),
                  !.ok = back.ok, !.len = back.len ]
       IN
       IF HandleState(h) = "open" THEN
         /\ ret' = [ r EXCEPT !.val = IF err = Ok THEN Transform(fn, hds[h], in)
                                                   ELSE UnfilledOf(in.in) ]
         /\ hds' = IF err = Ok THEN [ hds EXCEPT ![h] = Transformed(@, in) ] ELSE hds
         /\ UNCHANGED << ctxs, hist, crashed >>
       ELSE
         \* an unassigned or null handle: libgcrypt fails or the process dies
         \/ /\ ret' = [ r EXCEPT !.val = UnfilledOf(in.in) ]
            /\ UNCHANGED << ctxs, hds, hist, crashed >>
         \/ Crash("cipherUpdate")
  /\ UNCHANGED initVars

\* what final hands back: "*out = result; return true"
FinalReturnMut(err, n) == [ len |-> 0, ok |-> TRUE ]

FinalReturn(err, n) == [ len |-> n, ok |-> TRUE ]

\* gcryCipherContext::final(out); err is the status the transform returns
\* on an open handle
CipherFinal(c, err0) ==
  /\ ~crashed
  /\ c \in CipherCtx
  /\ LET h == ctxs[c].handle
         err == IF HandleState(h) = "open" THEN err0 ELSE "GPG_ERR_OTHER"
         r == [ NoRet EXCEPT !.op = "cipherFinal", !.ctx = c ]
     IN
     IF ctxs[c].pad THEN
       \E bs \in blockSize(ctxs[c]), fn \in TransformsOf(ctxs[c]) :
         LET back == FinalReturn(err, bs)
             rp == [ r EXCEPT !.arg = <<bs>>, !.calls = << Call(fn, h, err) >>,
                     !.diag = check_error(err), !.ok = back.ok, !.len = back.len ]
         IN
         IF HandleState(h) = "open" THEN
           /\ ret' = [ rp EXCEPT !.val = IF err = Ok
                                            THEN Transform(fn, hds[h], Plain(<<>>))
                                            ELSE Unfilled ]
           /\ UNCHANGED << ctxs, hds, hist, crashed >>
         ELSE
           \/ /\ ret' = [ rp EXCEPT !.val = Unfilled ]
              /\ UNCHANGED << ctxs, hds, hist, crashed >>
           \/ Crash("cipherFinal")
     ELSE
       LET back == FinalReturn(Ok, 0) IN
       /\ ret' = [ r EXCEPT !.ok = back.ok, !.len = back.len, !.val = Unfilled ]
       /\ UNCHANGED << ctxs, hds, hist, crashed >>
  /\ UNCHANGED initVars

\* gcryCipherContext::keyLength: the switch over m_cryptoAlgorithm
KeyLength(min, max, mult) == [ min |-> min, max |-> max, mult |-> mult ]

keyLengthMut(ctx) ==
  CASE ctx.alg = "GCRY_CIPHER_DES"      -> KeyLength(8, 8, 1)
    [] ctx.alg = "GCRY_CIPHER_AES128"   -> KeyLength(16, 16, 1)
    [] ctx.alg = "GCRY_CIPHER_3DES"     -> KeyLength(24, 24, 1)
    [] ctx.alg \in { "GCRY_CIPHER_AES192", "GCRY_CIPHER_AES256" }
                                        -> KeyLength(32, 32, 1)
    [] ctx.alg = "GCRY_CIPHER_BLOWFISH" -> KeyLength(1, 32, 1)
    [] OTHER                            -> KeyLength(0, 1, 1)

keyLength(ctx) ==
  CASE ctx.alg = "GCRY_CIPHER_DES"      -> KeyLength(8, 8, 1)
    [] ctx.alg = "GCRY_CIPHER_AES128"   -> KeyLength(16, 16, 1)
    [] ctx.alg \in { "GCRY_CIPHER_AES192", "GCRY_CIPHER_3DES" }
                                        -> KeyLength(24, 24, 1)
    [] ctx.alg = "GCRY_CIPHER_AES256"   -> KeyLength(32, 32, 1)
    [] ctx.alg = "GCRY_CIPHER_BLOWFISH" -> KeyLength(1, 32, 1)
    [] OTHER                            -> KeyLength(0, 1, 1)

\* a call of keyLength(): const, no libgcrypt call
CipherKeyLength(c) ==
  /\ ~crashed
  /\ c \in CipherCtx
  /\ ret' = [ NoRet EXCEPT !.op = "keyLength", !.ctx = c, !.val = keyLength(ctxs[c]) ]
  /\ UNCHANGED << ctxs, hds, hist, crashed >>
  /\ UNCHANGED initVars

\* a cipher context constructed directly, with either padding flag (the
\* constructor takes the flag; createContext always passes false)
ConstructCipher(alg, mode, pad) ==
  /\ ~crashed
  /\ Len(ctxs) < MaxCtx
  /\ ctxs' = Append(ctxs, gcryCipherContext(alg, mode, pad, "direct"))
  /\ hist' = Append(hist, NoHist)
  /\ ret' = [ NoRet EXCEPT !.op = "construct", !.ctx = Len(ctxs) + 1 ]
  /\ UNCHANGED << hds, crashed >>
  /\ UNCHANGED initVars

(***************************************************************************)
(* pbkdf2Context.  makeKey allocates a key of keyLength bytes, calls        *)
(* gcry_pbkdf2 and returns the key when the call reports no error; on any  *)
(* other status it prints the status and returns an empty key.  It assigns *)
(* no member.  gcry_pbkdf2 itself comes from pkcs5.c, which the plugin     *)
(* includes: the iterated-HMAC derivation, a function of the pseudorandom  *)
(* function, the secret, the salt, the iteration count and the length,     *)
(* which rejects an iteration count of 0.  A length of 0 it has to reject  *)
(* as well; a backend that accepts it derives no bytes.                    *)
(***************************************************************************)
KdfCtx == { c \in LiveCtx : ctxs[c].cls = "KDF" }

\* the statuses gcry_pbkdf2 can return for an iteration count and a length
Pbkdf2Statuses(c, dkLen) ==
  IF c = 0 THEN { "GPG_ERR_OTHER" }
  ELSE IF dkLen = 0 THEN { "GPG_ERR_NO_ERROR", "GPG_ERR_OTHER" }
  ELSE { "GPG_ERR_NO_ERROR" }

\* the bytes gcry_pbkdf2 writes to DK: not computed, kept as the value of
\* its arguments
gcry_pbkdf2(PRF, P, S, c, dkLen) ==
  [ len |-> dkLen, prf |-> PRF, secret |-> P, salt |-> S, iter |-> c ]

\* "QCA::SymmetricKey()": the key of no bytes
EmptyKey == [ len |-> 0, dk |-> Null ]

\* "QCA::SymmetricKey result(keyLength)" after gcry_pbkdf2 filled it; an
\* array of no bytes has no content
SymmetricKey(keyLen, dk) ==
  IF keyLen = 0 THEN EmptyKey ELSE [ len |-> keyLen, dk |-> dk ]

\* "if (retval == GPG_ERR_NO_ERROR) return result; else ... return
\* QCA::SymmetricKey()"
MakeKeyReturnMut(retval, result) == result

MakeKeyReturn(retval, result) ==
  IF retval = "GPG_ERR_NO_ERROR" THEN result ELSE EmptyKey

\* pbkdf2Context::makeKey(secret, salt, keyLength, iterationCount)
MakeKey(c, secret, salt, keyLen, iterationCount) ==
  /\ ~crashed
  /\ c \in KdfCtx
  /\ \E retval \in Pbkdf2Statuses(iterationCount, keyLen) :
       LET result == SymmetricKey(keyLen,
                       gcry_pbkdf2(ctxs[c].alg, secret, salt, iterationCount, keyLen))
           key == MakeKeyReturn(retval, result)
           args == << secret, salt, keyLen, iterationCount >>
       IN
       /\ ret' = [ NoRet EXCEPT !.op = "makeKey", !.ctx = c, !.arg = args,
                   !.calls = << Call("gcry_pbkdf2", Uninit, retval) >>,
                   !.diag = (retval # "GPG_ERR_NO_ERROR"),
                   !.len = key.len, !.val = key ]
       \* hist[c].seen: the calls made so far and what each returned
       /\ hist' = [ hist EXCEPT ![c].pure = FALSE,
                                ![c].seen = (IF hist[c].pure THEN {} ELSE @)
                                              \cup { [ args |-> args, out |-> key ] } ]
  /\ UNCHANGED << ctxs, hds, crashed >>
  /\ UNCHANGED initVars

(***************************************************************************)
(* gcryptProvider::init, one step per libgcrypt call.  The method takes no *)
(* lock: between its steps any other thread may run.  gcry_check_version   *)
(* initialises libgcrypt's subsystems, after which                         *)
(* GCRYCTL_ANY_INITIALIZATION_P answers true.                              *)
(***************************************************************************)
\* "gcry_control (GCRYCTL_ANY_INITIALIZATION_P)"
AlreadyInitializedMut(g) == FALSE

AlreadyInitialized(g) == g.anyInit

\* "if (!gcry_control (GCRYCTL_ANY_INITIALIZATION_P))"
InitEnter(t) ==
  /\ pc[t].at = "idle"
  /\ prov.calls < MaxInitCalls
  /\ prov' = [ prov EXCEPT !.calls = @ + 1,
                            !.overlapped = @ \/ \E u \in Threads : pc[u].at # "idle" ]
  /\ pc' = [ pc EXCEPT ![t] = IF AlreadyInitialized(gcry)
                                 THEN Idle
                                 ELSE [ at |-> "version", warned |-> FALSE ] ]
  /\ ret' = [ NoRet EXCEPT !.op = "init.check", !.arg = <<t>>, !.val = gcry,
              !.calls = << Call("GCRYCTL_ANY_INITIALIZATION_P", Uninit, Ok) >> ]
  /\ UNCHANGED << gcry, ctxs, hds, hist, crashed >>

\* "if (!gcry_check_version (GCRYPT_VERSION))": too old a library is
\* printed, and init goes on
InitVersion(t, versionOk) ==
  /\ pc[t].at = "version"
  /\ gcry' = [ gcry EXCEPT !.anyInit = TRUE ]
  /\ prov' = [ prov EXCEPT !.versions = @ + 1 ]
  /\ pc' = [ pc EXCEPT ![t] = [ at |-> "finish", warned |-> ~versionOk ] ]
  /\ ret' = [ NoRet EXCEPT !.op = "init.version", !.arg = <<t>>, !.diag = ~versionOk,
              !.calls = << Call("gcry_check_version", Uninit, Ok) >> ]
  /\ UNCHANGED << ctxs, hds, hist, crashed >>

\* "gcry_control (GCRYCTL_INITIALIZATION_FINISHED)"
InitFinished(t) ==
  /\ pc[t].at = "finish"
  /\ gcry' = [ gcry EXCEPT !.anyInit = TRUE, !.finished = @ + 1 ]
  /\ prov' = [ prov EXCEPT !.finishes = @ + 1 ]
  /\ pc' = [ pc EXCEPT ![t] = Idle ]
  /\ ret' = [ NoRet EXCEPT !.op = "init.finished", !.arg = <<t>>,
              !.diag = pc[t].warned,
              !.calls = << Call("GCRYCTL_INITIALIZATION_FINISHED", Uninit, Ok) >> ]
  /\ UNCHANGED << ctxs, hds, hist, crashed >>

(***************************************************************************)
(* The hash workload: digest contexts are created, cloned, driven and      *)
(* deleted in any order.                                                   *)
(***************************************************************************)
HashNames == { "sha1", "sha256" }

NextHash ==
  \/ \E n \in HashNames : NewContext(n)
  \/ \E c \in 1..MaxCtx : Clone(c)
  \/ \E c \in 1..MaxCtx : Destroy(c)
  \/ \E c \in 1..MaxCtx : HashClear(c)
  \/ \E c \in 1..MaxCtx, a \in Inputs : HashUpdate(c, a)
  \/ \E c \in 1..MaxCtx : HashFinal(c)

SpecHash == InitReady /\ [][NextHash]_vars

(***************************************************************************)
(* The cipher workload: cipher contexts come from createContext or from    *)
(* the constructor, and are configured, driven and cloned in any order,    *)
(* also before any setup.  createContext never sets the padding flag, so   *)
(* the contexts constructed directly are the ones that have it.            *)
(***************************************************************************)
CipherNames == { "des-ecb" }

NextCipher ==
  \/ \E n \in CipherNames : NewContext(n)
  \/ ConstructCipher("GCRY_CIPHER_AES128", "GCRY_CIPHER_MODE_ECB", TRUE)
  \/ \E c \in 1..MaxCtx : Clone(c)
  \/ \E c \in 1..MaxCtx, dir \in Directions, e1 \in Failing :
       CipherSetup(c, dir, "k1", "iv1", e1, Ok, Ok)
  \/ \E c \in 1..MaxCtx, err \in Failing : CipherUpdate(c, Plain(<< 0, 1 >>), err)
  \/ \E c \in 1..MaxCtx, err \in Failing : CipherFinal(c, err)

SpecCipher == InitReady /\ [][NextCipher]_vars

(***************************************************************************)
(* The key-length workload: a cipher context of any catalogue name, or one *)
(* constructed with a cipher kind the switch does not list, is asked for   *)
(* its key length before and after setup, whatever key setup was given and *)
(* whether libgcrypt took it.                                              *)
(***************************************************************************)
Keys == { "k1", "k2" }

CipherFeatures == { n \in FeatureSet : createContext(n).cls = "Cipher" }

NextKeyLength ==
  \/ \E n \in CipherFeatures : Len(ctxs) < MaxKeyLengthCtx /\ NewContext(n)
  \/ /\ Len(ctxs) < MaxKeyLengthCtx
     /\ ConstructCipher("GCRY_CIPHER_TWOFISH", "GCRY_CIPHER_MODE_ECB", FALSE)
  \/ \E c \in 1..MaxCtx, key \in Keys, e2 \in Failing :
       CipherSetup(c, "Encode", key, "iv1", Ok, e2, Ok)
  \/ \E c \in 1..MaxCtx : CipherKeyLength(c)

SpecKeyLength == InitReady /\ [][NextKeyLength]_vars

(***************************************************************************)
(* The key-derivation workload: pbkdf2 contexts are created, cloned and    *)
(* deleted, and asked for keys with secrets, lengths and iteration counts  *)
(* that include the ones the backend rejects.                              *)
(***************************************************************************)
KdfArgs ==
  { << "s1", "salt1", 2, 1 >>, << "s2", "salt1", 2, 1 >>,
    << "s1", "salt1", 0, 1 >>, << "s1", "salt1", 2, 0 >> }

NextKdf ==
  \/ NewContext("pbkdf2(sha1)")
  \/ \E c \in 1..MaxCtx : Clone(c)
  \/ \E c \in 1..MaxCtx : Destroy(c)
  \/ \E c \in 1..MaxCtx, a \in KdfArgs : MakeKey(c, a[1], a[2], a[3], a[4])

SpecKdf == InitReady /\ [][NextKdf]_vars

(***************************************************************************)
(* The failed-open workload: digest contexts whose gcry_md_open may fail   *)
(* are created, driven and deleted.                                        *)
(***************************************************************************)
NextHashOpen ==
  \/ NewContext("sha256")
  \/ \E c \in 1..MaxCtx : Destroy(c)
  \/ \E c \in 1..MaxCtx : HashClear(c)
  \/ \E c \in 1..MaxCtx : HashUpdate(c, << 1 >>)
  \/ \E c \in 1..MaxCtx : HashFinal(c)

SpecHashOpen == InitReady /\ [][NextHashOpen]_vars

(***************************************************************************)
(* The configuration workload: cipher contexts are created, configured     *)
(* (more than once, with a key libgcrypt takes, a key it flags as weak and *)
(* a key of a length it rejects, and with an open that may fail) and       *)
(* driven with plain bytes or with the array the update before returned.   *)
(* Every status is one libgcrypt returns for the handle and the input.     *)
(***************************************************************************)
ConfigNames == { "des-cbc" }

ConfigKeys == { "k1", "weak", "short" }

\* gcry_cipher_setkey: the status for a key
SetKeyStatus(key) ==
  CASE key = "short" -> "GPG_ERR_OTHER"
    [] key = "weak"  -> "GPG_ERR_WEAK_KEY"
    [] OTHER         -> "GPG_ERR_NO_ERROR"

\* one block of an 8-byte-block cipher, some bytes that are no whole block,
\* and no bytes
PlainTexts == { << 0, 0, 0, 0, 0, 0, 0, 0 >>, << 0, 1 >>, << >> }

\* the statuses of a transform of d on the handle of context c
StatusesFor(c, d) ==
  IF c \in CipherCtx /\ HandleState(ctxs[c].handle) = "open"
    THEN TransformStatuses(hds[ctxs[c].handle], d)
    ELSE { "GPG_ERR_OTHER" }

NextConfig ==
  \/ \E n \in ConfigNames : NewContext(n)
  \/ \E c \in 1..MaxCtx, dir \in Directions, key \in ConfigKeys, e1 \in Failing :
       CipherSetup(c, dir, key, "iv1", e1, SetKeyStatus(key), Ok)
  \/ \E c \in 1..MaxCtx, p \in PlainTexts :
       \E err \in StatusesFor(c, Plain(p)) : CipherUpdate(c, Plain(p), err)
  \/ \E c \in 1..MaxCtx :
       /\ ret.op = "cipherUpdate"
       /\ ret.val.fn # "plain"
       /\ \E err \in StatusesFor(c, ret.val) : CipherUpdate(c, ret.val, err)
  \/ \E c \in 1..MaxCtx : CipherFinal(c, Ok)

SpecConfig == InitReady /\ [][NextConfig]_vars

(***************************************************************************)
(* The status workload: contexts of the three classes are created; the     *)
(* cipher contexts are configured and driven while libgcrypt returns any   *)
(* status, the weak-key one included, from any of its calls.               *)
(***************************************************************************)
StatusNames == { "sha1", "des-cbc", "pbkdf2(sha1)" }

NextStatus ==
  \/ \E n \in StatusNames : Len(ctxs) < MaxStatusCtx /\ NewContext(n)
  \/ /\ Len(ctxs) < MaxStatusCtx
     /\ ConstructCipher("GCRY_CIPHER_DES", "GCRY_CIPHER_MODE_CBC", TRUE)
  \/ \E c \in 1..MaxCtx, e1 \in Failing, e2 \in Status :
       CipherSetup(c, "Encode", "k1", "iv1", e1, e2, Ok)
  \/ \E c \in 1..MaxCtx, err \in Status : CipherUpdate(c, Plain(<< 0, 1 >>), err)
  \/ \E c \in 1..MaxCtx, err \in Failing : CipherFinal(c, err)

SpecStatus == InitReady /\ [][NextStatus]_vars

(***************************************************************************)
(* The provider workload: any name is asked for, known or not; contexts    *)
(* are cloned and deleted.                                                 *)
(***************************************************************************)
NextProvider ==
  \/ \E n \in AllNames : NewContext(n)
  \/ \E c \in 1..MaxCtx : Clone(c)
  \/ \E c \in 1..MaxCtx : Destroy(c)

SpecProvider == InitReady /\ [][NextProvider]_vars

(***************************************************************************)
(* The initialisation workload: the threads call init in any interleaving; *)
(* prov.overlapped records that a call began while another was under way.  *)
(***************************************************************************)
NextInit ==
  \/ \E t \in Threads : InitEnter(t)
  \/ \E t \in Threads, versionOk \in BOOLEAN : InitVersion(t, versionOk)
  \/ \E t \in Threads : InitFinished(t)

SpecInit == Init /\ [][NextInit]_vars

(***************************************************************************)
(* What the claims compare the code with.                                  *)
(***************************************************************************)
\* the catalogue as the interface documents it: the descriptor of each name
DigestKindOf(n) ==
  CASE n = "sha1"      -> "GCRY_MD_SHA1"
    [] n = "md4"       -> "GCRY_MD_MD4"
    [] n = "md5"       -> "GCRY_MD_MD5"
    [] n = "ripemd160" -> "GCRY_MD_RMD160"
    [] n = "sha256"    -> "GCRY_MD_SHA256"
    [] n = "sha384"    -> "GCRY_MD_SHA384"
    [] n = "sha512"    -> "GCRY_MD_SHA512"

CipherTable ==
  { << "aes128-ecb", "GCRY_CIPHER_AES128", "GCRY_CIPHER_MODE_ECB" >>,
    << "aes128-cfb", "GCRY_CIPHER_AES128", "GCRY_CIPHER_MODE_CFB" >>,
    << "aes128-cbc", "GCRY_CIPHER_AES128", "GCRY_CIPHER_MODE_CBC" >>,
    << "aes192-ecb", "GCRY_CIPHER_AES192", "GCRY_CIPHER_MODE_ECB" >>,
    << "aes192-cfb", "GCRY_CIPHER_AES192", "GCRY_CIPHER_MODE_CFB" >>,
    << "aes192-cbc", "GCRY_CIPHER_AES192", "GCRY_CIPHER_MODE_CBC" >>,
    << "aes256-ecb", "GCRY_CIPHER_AES256", "GCRY_CIPHER_MODE_ECB" >>,
    << "aes256-cfb", "GCRY_CIPHER_AES256", "GCRY_CIPHER_MODE_CFB" >>,
    << "aes256-cbc", "GCRY_CIPHER_AES256", "GCRY_CIPHER_MODE_CBC" >>,
    << "blowfish-ecb", "GCRY_CIPHER_BLOWFISH", "GCRY_CIPHER_MODE_ECB" >>,
    << "tripledes-ecb", "GCRY_CIPHER_3DES", "GCRY_CIPHER_MODE_ECB" >>,
    << "des-ecb", "GCRY_CIPHER_DES", "GCRY_CIPHER_MODE_ECB" >>,
    << "des-cbc", "GCRY_CIPHER_DES", "GCRY_CIPHER_MODE_CBC" >>,
    << "des-cfb", "GCRY_CIPHER_DES", "GCRY_CIPHER_MODE_CFB" >> }

DigestNameSet == { "sha1", "md4", "md5", "ripemd160", "sha256", "sha384", "sha512" }
CipherNameSet == { row[1] : row \in CipherTable }

Descriptor(ctx) ==
  [ cls |-> ctx.cls, alg |-> ctx.alg, mode |-> ctx.mode, pad |-> ctx.pad ]

Catalogue(n) ==
  IF n \in DigestNameSet THEN
    [ cls |-> "Hash", alg |-> DigestKindOf(n), mode |-> "none", pad |-> FALSE ]
  ELSE IF n \in CipherNameSet THEN
    LET row == CHOOSE r \in CipherTable : r[1] = n IN
    [ cls |-> "Cipher", alg |-> row[2], mode |-> row[3], pad |-> FALSE ]
  ELSE IF n = "pbkdf2(sha1)" THEN
    [ cls |-> "KDF", alg |-> "GCRY_MD_SHA1", mode |-> "none", pad |-> FALSE ]
  ELSE [ cls |-> "null", alg |-> "", mode |-> "none", pad |-> FALSE ]

OwnsHandle(c) == ctxs[c].handle \in 1..Len(hds)

(***************************************************************************)
(* C1.  createContext(n) returns a context exactly for the 22 names of     *)
(* features(), and every context carries the descriptor the catalogue      *)
(* gives its name: 7 digests, 14 ciphers with their kind and block mode    *)
(* and no padding, and pbkdf2 over SHA-1.                                  *)
(***************************************************************************)
C1_CatalogueExact ==
  /\ Len(features) = 22
  /\ Cardinality(FeatureSet) = 22
  /\ FeatureSet = DigestNameSet \cup CipherNameSet \cup { "pbkdf2(sha1)" }
  /\ ret.op = "createContext" => (ret.ctx # 0 <=> ret.arg[1] \in FeatureSet)
  /\ \A c \in LiveCtx : Descriptor(ctxs[c]) = Catalogue(ctxs[c].type)

C1_Witness ==
  /\ ret.op = "createContext"
  /\ ret.ctx = 2
  /\ ctxs[2].type = "des-cfb"
  /\ ctxs[1].live /\ ctxs[1].type = "sha512"

(***************************************************************************)
(* C2.  createContext with a name outside the catalogue returns null as an *)
(* ordinary result: it constructs nothing, calls libgcrypt not at all, and *)
(* leaves the contexts, the handles and the library state as they were.    *)
(***************************************************************************)
C2_UnknownNameNoEffect ==
  [][ (ret'.op = "createContext" /\ ret'.arg[1] \notin FeatureSet)
        => /\ ret'.ctx = 0
           /\ ret'.calls = <<>>
           /\ ~crashed'
           /\ UNCHANGED << ctxs, hds, gcry, prov >> ]_vars

C2_Witness ==
  /\ ret.op = "createContext"
  /\ ret.arg = << "not-a-real-algorithm" >>
  /\ ret.ctx = 0
  /\ LiveCtx # {}
  /\ Len(hds) > 0

(***************************************************************************)
(* C3.  Two distinct live contexts never hold the same libgcrypt handle,   *)
(* and clone() returns a context with the descriptor of the original and a *)
(* handle of its own.                                                      *)
(***************************************************************************)
C3_DisjointHandles ==
  /\ \A c1, c2 \in LiveCtx :
       (c1 # c2 /\ OwnsHandle(c1)) => ctxs[c1].handle # ctxs[c2].handle
  /\ ret.op = "clone" =>
       Descriptor(ctxs[ret.ctx]) = Descriptor(ctxs[ret.arg[1]])

(***************************************************************************)
(* C4.  No handle is closed more than once, and a handle that no live      *)
(* context holds any more has been closed exactly once.                    *)
(***************************************************************************)
C4_ReleasedExactlyOnce ==
  \A h \in 1..Len(hds) :
    /\ hds[h].closes <= 1
    /\ (\A c \in LiveCtx : ctxs[c].handle # h) => hds[h].closes = 1

(***************************************************************************)
(* C5.  init() is idempotent.  A call that finds libgcrypt initialised     *)
(* returns at once; a call that does not runs the version check and the    *)
(* "initialization finished" control, whether or not the version check     *)
(* passed.  After one or more calls made one after the other, libgcrypt is *)
(* initialised and "initialization finished" was performed exactly once,   *)
(* by this provider or by the component that initialised it before.        *)
(***************************************************************************)
AllIdle == \A t \in Threads : pc[t].at = "idle"

C5_InitIdempotent ==
  /\ ret.op = "init.check" => gcry = ret.val
  /\ (ret.op = "init.check" /\ ret.val.anyInit) => pc[ret.arg[1]].at = "idle"
  /\ (ret.op = "init.check" /\ ~ret.val.anyInit) => pc[ret.arg[1]].at = "version"
  /\ ret.op = "init.version" => pc[ret.arg[1]].at = "finish"
  /\ ret.op = "init.finished" => (gcry.anyInit /\ gcry.finished >= 1)
  /\ (~prov.overlapped /\ AllIdle /\ prov.calls > 0) =>
       (gcry.anyInit /\ gcry.finished = 1 /\ prov.finishes <= 1)

C5_Witness ==
  /\ ~prov.overlapped
  /\ AllIdle
  /\ prov.calls >= 3
  /\ prov.finishes = 1
  /\ ret.op = "init.check"
  /\ ret.val.anyInit

(***************************************************************************)
(* C6.  Whatever the interleaving of the threads that call init(), the     *)
(* version check and "initialization finished" are performed at most once  *)
(* by the provider, and exactly once in the process.                       *)
(***************************************************************************)
C6_InitOnceUnderRace ==
  /\ prov.versions <= 1
  /\ prov.finishes <= 1
  /\ gcry.finished <= 1

(***************************************************************************)
(* C7.  When only clear() and update() were called on a hash context since *)
(* its construction or last clear(), final() returns the digest of the     *)
(* bytes passed to its update() since then, concatenated in call order.    *)
(* It is stated for a context whose handle is open, where what libgcrypt   *)
(* does is defined.                                                        *)
(***************************************************************************)
C7_DigestOfAbsorbed ==
  (ret.op = "final" /\ ret.pure /\ HandleState(ctxs[ret.ctx].handle) = "open") =>
    ret.val = [ alg |-> ctxs[ret.ctx].alg, of |-> hist[ret.ctx].absorbed,
                exact |-> TRUE ]

(***************************************************************************)
(* C8.  final() on a hash context returns an array of the digest length of *)
(* its digest kind, and returns the value its previous final() returned    *)
(* when no update() or clear() was called on the context in between.  It   *)
(* is stated for a context whose handle is open, where what libgcrypt does *)
(* is defined.                                                             *)
(***************************************************************************)
C8_FinalRepeatable ==
  (ret.op = "final" /\ HandleState(ctxs[ret.ctx].handle) = "open") =>
    /\ ret.len = DigestLen(Catalogue(ctxs[ret.ctx].type).alg)
    /\ ret.prev # Null => ret.val = ret.prev

(***************************************************************************)
(* C9.  Cipher update() returns true with an output of exactly the input's *)
(* length, in both directions and also when the libgcrypt transform        *)
(* reports a failure; cipher final() returns true as well.                 *)
(***************************************************************************)
C9_UpdateAlwaysSucceeds ==
  /\ ret.op = "cipherUpdate" => (ret.ok /\ ret.len = Len(ret.arg))
  /\ ret.op = "cipherFinal" => ret.ok

C9_Witness ==
  /\ ret.op = "cipherUpdate"
  /\ ret.arg = << 0, 1 >>
  /\ OwnsHandle(ret.ctx)
  /\ ret.calls = << Call("gcry_cipher_decrypt", ctxs[ret.ctx].handle, "GPG_ERR_OTHER") >>
  /\ ret.diag
  /\ ret.ok

(***************************************************************************)
(* C10.  Cipher final() without the padding flag returns an empty array    *)
(* and calls libgcrypt not at all; with the flag it makes exactly one      *)
(* transform call, the one of the configured direction, and returns an     *)
(* array of blockSize() bytes.  A context from createContext has no        *)
(* padding flag, so its final() returns an empty array.                    *)
(***************************************************************************)
C10_FinalPadding ==
  ret.op = "cipherFinal" =>
    LET ctx == ctxs[ret.ctx] IN
    /\ ~ctx.pad => (ret.len = 0 /\ ret.calls = <<>>)
    /\ ctx.pad =>
         /\ Len(ret.calls) = 1
         /\ ret.calls[1].fn \in TransformsOf(ctx)
         /\ ctx.dir = "Encode" => ret.calls[1].fn = "gcry_cipher_encrypt"
         /\ ctx.dir = "Decode" => ret.calls[1].fn = "gcry_cipher_decrypt"
         /\ ret.arg[1] \in blockSize(ctx)
         /\ ret.len = ret.arg[1]
         /\ ret.val # Unfilled => ret.val.in = <<>>
    /\ ctx.type \in FeatureSet => (ret.len = 0 /\ ret.calls = <<>>)

C10_Witness ==
  /\ ret.op = "cipherFinal"
  /\ ctxs[ret.ctx].pad
  /\ ctxs[ret.ctx].dir = "Decode"
  /\ OwnsHandle(ret.ctx)
  /\ ret.len = 16
  /\ ret.calls = << Call("gcry_cipher_decrypt", ctxs[ret.ctx].handle, "GPG_ERR_NO_ERROR") >>

(***************************************************************************)
(* C11.  keyLength() of a cipher context is the entry of the table for its *)
(* cipher kind: DES (8,8,1), AES-128 (16,16,1), AES-192 and 3DES           *)
(* (24,24,1), AES-256 (32,32,1), Blowfish (1,32,1), any other kind         *)
(* (0,1,1); the block mode, an earlier setup and the key setup installed   *)
(* make no difference.                                                     *)
(***************************************************************************)
KeyLengthTable(kind) ==
  CASE kind = "GCRY_CIPHER_DES"      -> << 8, 8, 1 >>
    [] kind = "GCRY_CIPHER_AES128"   -> << 16, 16, 1 >>
    [] kind = "GCRY_CIPHER_AES192"   -> << 24, 24, 1 >>
    [] kind = "GCRY_CIPHER_3DES"     -> << 24, 24, 1 >>
    [] kind = "GCRY_CIPHER_AES256"   -> << 32, 32, 1 >>
    [] kind = "GCRY_CIPHER_BLOWFISH" -> << 1, 32, 1 >>
    [] OTHER                         -> << 0, 1, 1 >>

KindOfName(n) ==
  IF n \in CipherNameSet THEN Catalogue(n).alg ELSE "not in the catalogue"

C11_KeyLengthTable ==
  ret.op = "keyLength" =>
    << ret.val.min, ret.val.max, ret.val.mult >>
      = KeyLengthTable(KindOfName(ctxs[ret.ctx].type))

C11_Witness ==
  /\ ret.op = "keyLength"
  /\ ctxs[ret.ctx].type = "aes192-cfb"
  /\ OwnsHandle(ret.ctx)
  /\ hds[ctxs[ret.ctx].handle].key = "none"
  /\ ret.val = KeyLength(24, 24, 1)
  /\ Len(hds) = 2
  /\ hds[1].key = "k2"

(***************************************************************************)
(* C12.  makeKey returns a key of exactly keyLength bytes when gcry_pbkdf2 *)
(* reports no error, and the empty key, with nothing for the caller to     *)
(* tell the failure by, when it reports any other status, as it does for   *)
(* an iteration count of 0; a derivation of 0 bytes, failed or not,        *)
(* returns that same empty key.                                            *)
(***************************************************************************)
C12_MakeKeyLengthOrEmpty ==
  ret.op = "makeKey" =>
    LET retval == ret.calls[1].st
        keyLengthBytes == ret.arg[3]
        iterationCount == ret.arg[4]
    IN
    /\ Len(ret.calls) = 1
    /\ retval = "GPG_ERR_NO_ERROR" =>
         /\ ret.val.len = keyLengthBytes
         /\ keyLengthBytes > 0 => ret.val.dk # Null
    /\ retval # "GPG_ERR_NO_ERROR" => (ret.val = EmptyKey /\ ret.ok)
    /\ iterationCount = 0 => (retval # "GPG_ERR_NO_ERROR" /\ ret.val = EmptyKey)
    /\ keyLengthBytes = 0 => ret.val = EmptyKey

C12_Witness ==
  /\ ret.op = "makeKey"
  /\ ret.arg = << "s1", "salt1", 2, 0 >>
  /\ ret.val = EmptyKey
  /\ ret.diag
  /\ \E p \in hist[ret.ctx].seen : p.args[3] = 2 /\ p.out.len = 2
  /\ \E p \in hist[ret.ctx].seen : p.args[3] = 0 /\ p.out = EmptyKey

(***************************************************************************)
(* C20.  A pbkdf2 context keeps nothing between calls: makeKey leaves the  *)
(* context, and every other context and handle, as they were, and returns  *)
(* what any earlier call with the same secret, salt, length and iteration  *)
(* count returned on this context or on a context of the same name, the    *)
(* original of a clone and its clones included, whatever calls were made   *)
(* in between.                                                             *)
(***************************************************************************)
C20_MakeKeyStateless ==
  [][ ret'.op = "makeKey" =>
        /\ UNCHANGED << ctxs, hds, gcry >>
        /\ \A c \in KdfCtx :
             (ctxs[c].type = ctxs[ret'.ctx].type /\ ~hist[c].pure) =>
               \A p \in hist[c].seen : p.args = ret'.arg => p.out = ret'.val ]_vars

C20_Witness ==
  /\ ret.op = "makeKey"
  /\ ret.ctx = 2
  /\ ret.arg = << "s1", "salt1", 2, 1 >>
  /\ ret.val.len = 2
  /\ ctxs[1].live /\ ctxs[1].cls = "KDF"
  /\ ~hist[1].pure
  /\ [ args |-> ret.arg, out |-> ret.val ] \in hist[1].seen
  /\ Cardinality(hist[2].seen) >= 3

(***************************************************************************)
(* C16.  Every gcry_cipher_encrypt / gcry_cipher_decrypt call that update  *)
(* or final of a cipher context makes is made on a handle that a setup of  *)
(* a cipher context opened: never on the member the constructor left       *)
(* unassigned, and never on the null handle of a failed open.              *)
(***************************************************************************)
C16_OnlyOpenedHandles ==
  ret.op \in { "cipherUpdate", "cipherFinal" } =>
    \A i \in 1..Len(ret.calls) :
      /\ ret.calls[i].h \in 1..Len(hds)
      /\ hds[ret.calls[i].h].kind = "cipher"

(***************************************************************************)
(* C18.  setup always makes the three calls gcry_cipher_open,              *)
(* gcry_cipher_setkey and gcry_cipher_setiv, in that order and once each,  *)
(* also when an earlier one failed, reports nothing to its caller, and     *)
(* always returns, leaving the context with the direction it was given.    *)
(***************************************************************************)
C18_SetupThreeSteps ==
  /\ ~(ret.op = "crash" /\ ret.arg = << "setup" >>)
  /\ ret.op = "setup" =>
       /\ Len(ret.calls) = 3
       /\ ret.calls[1].fn = "gcry_cipher_open"
       /\ ret.calls[2].fn = "gcry_cipher_setkey"
       /\ ret.calls[3].fn = "gcry_cipher_setiv"
       /\ ret.ok
       /\ ret.diag <=> \E i \in 1..3 : check_error(ret.calls[i].st)
       /\ ctxs[ret.ctx].dir \in Directions

(***************************************************************************)
(* C19.  When gcry_md_open fails in the constructor of a hash context,     *)
(* createContext still returns the hash context: the failure is printed,   *)
(* the context holds the handle that was never opened, and clear, update,  *)
(* final and the destructor pass that handle to libgcrypt as they would an *)
(* open one.                                                               *)
(***************************************************************************)
OpFn(op) ==
  CASE op = "clear"  -> "gcry_md_reset"
    [] op = "update" -> "gcry_md_write"
    [] op = "final"  -> "gcry_md_read"
    [] op = "delete" -> "gcry_md_close"
    [] OTHER         -> "none"

C19_FailedOpenStillReturns ==
  [][ /\ ( /\ ret'.op = "createContext"
            /\ ret'.calls # << >>
            /\ ret'.calls[1].fn = "gcry_md_open"
            /\ ret'.calls[1].st # "GPG_ERR_NO_ERROR" )
          => /\ ret'.ctx = Len(ctxs) + 1
             /\ ret'.diag
             /\ ctxs'[ret'.ctx].cls = "Hash"
             /\ ctxs'[ret'.ctx].live
             /\ ctxs'[ret'.ctx].handle = NullHandle
             /\ hds' = hds
      /\ \A c \in HashCtx :
           (ctxs[c].handle = NullHandle /\ ret'.ctx = c /\ OpFn(ret'.op) # "none")
             => ret'.calls = << Call(OpFn(ret'.op), NullHandle, Ok) >>
      /\ \A c \in HashCtx :
           (ctxs[c].handle = NullHandle /\ ~crashed' /\ ctxs'[c].live)
             => ctxs'[c].handle = NullHandle
    ]_vars

C19_Witness ==
  /\ ret.op = "delete"
  /\ ret.calls = << Call("gcry_md_close", NullHandle, Ok) >>
  /\ hds = << >>
  /\ \E c \in HashCtx : ctxs[c].handle = NullHandle

(***************************************************************************)
(* C13.  setup, update and final of a cipher context print a diagnostic    *)
(* exactly when a status libgcrypt returned to them is neither "no error"  *)
(* nor the weak-key code.  The status changes nothing else: the method     *)
(* returns true, update returns as many bytes as it was given, setup       *)
(* leaves the context with the direction and the handle of its open call,  *)
(* and a key flagged as weak is installed as an accepted key is.           *)
(***************************************************************************)
C13_ErrorBridge ==
  ret.op \in { "setup", "cipherUpdate", "cipherFinal" } =>
    /\ ret.diag <=> \E i \in 1..Len(ret.calls) :
                      ret.calls[i].st \notin { "GPG_ERR_NO_ERROR", "GPG_ERR_WEAK_KEY" }
    /\ ret.ok
    /\ ret.op = "cipherUpdate" => ret.len = Len(ret.arg)
    /\ ret.op = "setup" =>
         /\ ctxs[ret.ctx].dir = hist[ret.ctx].seen.dir
         /\ ctxs[ret.ctx].handle = ret.calls[1].h
         /\ ( /\ ret.calls[1].st = "GPG_ERR_NO_ERROR"
              /\ ret.calls[2].st \in { "GPG_ERR_NO_ERROR", "GPG_ERR_WEAK_KEY" } )
            => hds[ret.calls[1].h].key = hist[ret.ctx].seen.key

C13_Witness ==
  /\ ret.op = "setup"
  /\ ret.calls[1].st = "GPG_ERR_NO_ERROR"
  /\ ret.calls[2].st = "GPG_ERR_WEAK_KEY"
  /\ ~ret.diag
  /\ hds[ctxs[ret.ctx].handle].key = "k1"

(***************************************************************************)
(* C15.  A libgcrypt handle is opened when a context is created only for a *)
(* hash context: createContext of a cipher or of a key-derivation context  *)
(* opens nothing, and so does the cipher constructor.  A cipher handle is  *)
(* opened by setup only: each setup makes one gcry_cipher_open call, with  *)
(* the algorithm and the mode of the context, and no other operation       *)
(* opens a handle.                                                         *)
(***************************************************************************)
C15_HandleOpenedWhen ==
  [][ /\ Len(hds') > Len(hds) =>
           /\ Len(hds') = Len(hds) + 1
           /\ \/ /\ ret'.op = "createContext"
                 /\ ctxs'[ret'.ctx].cls = "Hash"
                 /\ ctxs'[ret'.ctx].handle = Len(hds')
                 /\ hds'[Len(hds')].kind = "md"
              \/ /\ ret'.op = "setup"
                 /\ ctxs'[ret'.ctx].handle = Len(hds')
                 /\ hds'[Len(hds')].kind = "cipher"
                 /\ hds'[Len(hds')].alg = ctxs[ret'.ctx].alg
                 /\ hds'[Len(hds')].mode = ctxs[ret'.ctx].mode
      /\ (ret'.op = "createContext" /\ ret'.ctx # 0) =>
           IF ctxs'[ret'.ctx].cls = "Hash"
             THEN /\ Len(ret'.calls) = 1
                  /\ ret'.calls[1].fn = "gcry_md_open"
                  /\ ret'.calls[1].st = "GPG_ERR_NO_ERROR" => Len(hds') = Len(hds) + 1
             ELSE /\ hds' = hds
                  /\ \A i \in 1..Len(ret'.calls) :
                       ret'.calls[i].fn \notin { "gcry_md_open", "gcry_cipher_open" }
      /\ ret'.op = "construct" => (hds' = hds /\ ret'.calls = << >>)
      /\ ret'.op = "setup" =>
           /\ Cardinality({ i \in 1..Len(ret'.calls) :
                              ret'.calls[i].fn = "gcry_cipher_open" }) = 1
           /\ ret'.calls[1].fn = "gcry_cipher_open"
           /\ ret'.calls[1].st = "GPG_ERR_NO_ERROR" => Len(hds') = Len(hds) + 1
    ]_vars

C15_Witness ==
  /\ ret.op = "setup"
  /\ Len(hds) = 2
  /\ ctxs[ret.ctx].type = "des-cbc"
  /\ ctxs[ret.ctx].handle = 2
  /\ \A h \in 1..2 : /\ hds[h].kind = "cipher"
                      /\ hds[h].alg = "GCRY_CIPHER_DES"
                      /\ hds[h].mode = "GCRY_CIPHER_MODE_CBC"

(***************************************************************************)
(* C14.  For a cipher name of the catalogue, a key, an iv and plain bytes  *)
(* whose length is a multiple of the block length: when one context is set *)
(* up with (Encode, key, iv) and its first update is given the plain       *)
(* bytes, and a second context of the same name is set up with (Decode,    *)
(* key, iv) and its first update is given what the first returned, the     *)
(* second update returns the plain bytes.  Stated for the set-ups whose    *)
(* gcry_cipher_open succeeded.                                             *)
(***************************************************************************)
C14_RoundTrip ==
  [][ \A src, c \in CipherCtx :
        ( /\ src # c
          /\ ctxs[src].type = ctxs[c].type
          /\ ctxs[c].type \in FeatureSet
          /\ ~ctxs[c].pad
          \* the update before: the first context encrypted plain bytes
          /\ ret.op = "cipherUpdate" /\ ret.ctx = src
          /\ ret.prev = Plain(ret.arg)
          /\ Len(ret.arg) % BlkLen(ctxs[src].alg) = 0
          /\ hist[src].seen # Null /\ hist[c].seen # Null
          /\ hist[src].seen.dir = "Encode" /\ hist[c].seen.dir = "Decode"
          /\ hist[src].seen.key = hist[c].seen.key
          /\ hist[src].seen.iv = hist[c].seen.iv
          \* on the handle its setup opened, as the first transform of it
          /\ HandleState(ret.calls[1].h) = "open"
          /\ IF ret.calls[1].st = "GPG_ERR_NO_ERROR"
               THEN ~ret.val.used ELSE ~hds[ret.calls[1].h].used
          \* this update: the second context is given what the first returned,
          \* on the handle its setup opened, as the first transform of it
          /\ ret'.op = "cipherUpdate" /\ ret'.ctx = c
          /\ ret'.prev = ret.val
          /\ HandleState(ctxs[c].handle) = "open"
          /\ ~hds[ctxs[c].handle].used )
        => ret'.val = Plain(ret.arg)
    ]_vars

(***************************************************************************)
(* C17.  Once setup(dir, key, iv) has run on a cipher context, every       *)
(* transform call update and final make is gcry_cipher_encrypt when dir is *)
(* Encode and gcry_cipher_decrypt otherwise, on a handle that holds that   *)
(* key and that iv; a further setup replaces all three, and leaves the     *)
(* context on a newly opened handle that has transformed nothing.          *)
(***************************************************************************)
C17_ConfiguredTransforms ==
  /\ (ret.op \in { "cipherUpdate", "cipherFinal" } /\ hist[ret.ctx].seen # Null) =>
       \A i \in 1..Len(ret.calls) :
         /\ ret.calls[i].fn = IF hist[ret.ctx].seen.dir = "Encode"
                                THEN "gcry_cipher_encrypt" ELSE "gcry_cipher_decrypt"
         /\ ret.calls[i].h \in 1..Len(hds)
         /\ hds[ret.calls[i].h].key = hist[ret.ctx].seen.key
         /\ hds[ret.calls[i].h].iv = hist[ret.ctx].seen.iv
  /\ ret.op = "setup" =>
       /\ ctxs[ret.ctx].dir = hist[ret.ctx].seen.dir
       /\ ctxs[ret.ctx].handle = Len(hds)
       /\ Len(hds) > 0 =>
            /\ hds[Len(hds)].key = hist[ret.ctx].seen.key
            /\ hds[Len(hds)].iv = hist[ret.ctx].seen.iv
            /\ ~hds[Len(hds)].used

====
